---- MODULE Spec2Model ----
(***************************************************************************)
(* Model of qTMclust+.cpp: greedy, length-sorted structural clustering     *)
(* with a HwRMSD ranking stage and a multi-threaded TM-align confirmation  *)
(* stage (alignment_worker).                                               *)
(*                                                                         *)
(* Numbers.  TM-scores and the cutoff are fixed-point integers in units of *)
(* 1/1000 (a TM-score of 0.5 is 500).  TMcut is a multiple of 100, so that *)
(* every threshold the code derives from it (0.9c+0.1, 0.9c, 0.8c, 0.6c,   *)
(* 0.5c, 0.25c, 0.02c) is an integer and every comparison of a combined    *)
(* score with a threshold is exact under the rounding down of Combine.     *)
(* The length tests of the pruner are cross-multiplied, so they are exact. *)
(*                                                                         *)
(* TMalign_main and HwRMSD_main are external pure functions.  Their result *)
(* for the pairs (query, candidate) of the current query is the variable   *)
(* orc, drawn when the query's step begins; a pair is only ever aligned    *)
(* during the step of its query.                                           *)
(***************************************************************************)
EXTENDS Integers, Sequences, FiniteSets, TLC

\* ---------------------------------------------------------------- bounds
NumChains == 3
MaxThreads == 2

\* ------------------------------------------------------ program constants
TMcutDefault == 500
fast_lb == 50
fast_ub == 1000
min_repr_num == 10
max_repr_num == 50
SingletonLen == 5
NoCluster == 0 - 1

Chains == 0 .. (NumChains - 1)
Threads == 0 .. (MaxThreads - 1)

\* ------------------------------------------------------------ input sets
\* (length, molecule type) of a chain: a chain TM-align cannot handle, two
\* proteins of comparable length, a nucleic acid, and a long protein that
\* the length bound of -s 2 separates from the 60-residue chains
ChainKinds ==
    { [L |-> 4, mol |-> 0 - 1], [L |-> 60, mol |-> 0 - 1],
      [L |-> 60, mol |-> 1], [L |-> 150, mol |-> 0 - 1] }

\* -s, -fast and -TMcut as given on the command line
SOpts == {1, 2, 4}
TMcuts == {TMcutDefault}

\* results of the alignment primitives for one pair: the (TM1, TM2) of
\* HwRMSD_main, of TMalign_main with fast=true and with fast=false
Profiles ==
    { [hw |-> <<100, 150>>, fast |-> <<100, 150>>, ref |-> <<100, 150>>],
      [hw |-> <<400, 450>>, fast |-> <<470, 480>>, ref |-> <<520, 560>>],
      [hw |-> <<300, 350>>, fast |-> <<470, 480>>, ref |-> <<470, 490>>],
      [hw |-> <<600, 650>>, fast |-> <<600, 650>>, ref |-> <<620, 660>>] }

\* -init files: none, one line naming every chain, one line naming two
AllLabels == [k \in 1 .. NumChains |-> k - 1]
HintFiles == { <<>>, <<AllLabels>>, << <<0, 1>> >> }

\* ------------------------------------------------------- sequence helpers
RECURSIVE SeqToSet(_)
SeqToSet(s) == IF s = <<>> THEN {} ELSE {Head(s)} \cup SeqToSet(Tail(s))

\* greater<pair<...> >: lexicographic on (first, second)
PairGreater(a, b) == a[1] > b[1] \/ (a[1] = b[1] /\ a[2] > b[2])

RECURSIVE InsertDesc(_, _)
InsertDesc(s, e) ==
    IF s = <<>> THEN <<e>>
    ELSE IF PairGreater(e, Head(s)) THEN <<e>> \o s
    ELSE <<Head(s)>> \o InsertDesc(Tail(s), e)

\* stable_sort(begin, end, greater<pair>())
RECURSIVE StableSortDesc(_)
StableSortDesc(s) ==
    IF s = <<>> THEN <<>>
    ELSE InsertDesc(StableSortDesc(SubSeq(s, 1, Len(s) - 1)), s[Len(s)])

RECURSIVE ISqrtIn(_, _, _)
ISqrtIn(n, lo, hi) ==
    IF lo >= hi THEN lo
    ELSE LET mid == (lo + hi + 1) \div 2
         IN  IF mid * mid <= n THEN ISqrtIn(n, mid, hi) ELSE ISqrtIn(n, lo, mid - 1)
\* sqrt() of a fixed-point product, rounded down; the search stays below
\* the root of the largest 32-bit integer
ISqrt(n) == ISqrtIn(n, 0, IF n < 46340 THEN n ELSE 46340)

\* ------------------------------------------------------- pure functions
\* the length-bound pruner, written three times in the source with the
\* same text: true when the pair is skipped.  TMcut is a multiple of 0.1
\* wherever the pruner is applied, so its square is taken in tenths.
\* variant: the bound of -s 3 without its offset, 2*TMcut in place of
\* 2*TMcut-1
LengthPruned_NoOffset(s, c, x, y) ==
    \/ s = 2 /\ 1000 * x < c * y
    \/ s = 3 /\ 1000 * x < (2 * c) * y
    \/ s = 4 /\ x * (2000 - c) < y * c
    \/ s = 5 /\ 100 * x < (c \div 100) * (c \div 100) * y
    \/ s = 6 /\ 100 * x * x < (2 * (c \div 100) * (c \div 100) - 100) * y * y

LengthPruned(s, c, x, y) ==
    \/ s = 2 /\ 1000 * x < c * y
    \/ s = 3 /\ 1000 * x < (2 * c - 1000) * y
    \/ s = 4 /\ x * (2000 - c) < y * c
    \/ s = 5 /\ 100 * x < (c \div 100) * (c \div 100) * y
    \/ s = 6 /\ 100 * x * x < (2 * (c \div 100) * (c \div 100) - 100) * y * y

MolMismatch(mi, mj) == mi * mj < 0

Pruned(s, c, x, y, mi, mj) == MolMismatch(mi, mj) \/ LengthPruned(s, c, x, y)

\* TM from (TM1, TM2) by -s; 1/0 is +inf in the source, so the harmonic
\* mean of a zero score is 0
Combine(tm, s) ==
    LET TM1 == tm[1]
        TM2 == tm[2]
    IN  CASE s = 1 -> TM2
          [] s = 2 -> TM1
          [] s = 3 -> (TM1 + TM2) \div 2
          [] s = 4 -> IF TM1 = 0 \/ TM2 = 0 THEN 0
                      ELSE (2 * TM1 * TM2) \div (TM1 + TM2)
          [] s = 5 -> ISqrt(TM1 * TM2)
          [] s = 6 -> ISqrt((TM1 * TM1 + TM2 * TM2) \div 2)

filter_lower_bound(c, s, mol_type) ==
    IF s <= 1
    THEN IF mol_type > 0
         THEN [lb_HwRMSD |-> (2 * c) \div 100, lb_TMfast |-> (60 * c) \div 100]
         ELSE [lb_HwRMSD |-> (25 * c) \div 100, lb_TMfast |-> (80 * c) \div 100]
    ELSE [lb_HwRMSD |-> (50 * c) \div 100, lb_TMfast |-> (90 * c) \div 100]

\* 0.90*TMcut+0.10, both for HwRMSD and for the first TM-align
UpperBound(c) == (90 * c) \div 100 + 100

\* read_init_cluster: every label of a line maps to the other positions of
\* that line; a later line replaces the entry of a label it repeats
LineHints(line, i) == { line[j] : j \in (1 .. Len(line)) \ {i} }

RECURSIVE read_init_cluster(_, _)
read_init_cluster(file, acc) ==
    IF file = <<>> THEN acc
    ELSE LET line == Head(file)
             keys == SeqToSet(line)
             last(l) == CHOOSE i \in 1 .. Len(line) :
                            line[i] = l /\ \A j \in (i + 1) .. Len(line) : line[j] # l
             upd == [l \in DOMAIN acc \cup keys |->
                        IF l \in keys THEN LineHints(line, last(l)) ELSE acc[l]]
         IN  read_init_cluster(Tail(file), upd)

\* ----------------------------------------------------------------- state
VARIABLES
    \* input, fixed for the run
    mol_vec,              \* chain id -> molecule type
    chainLen_list,        \* sorted sequence of <<length, chain id>>
    init_cluster,         \* -init: label -> set of labels
    s_opt, fast_opt, TMcut, num_threads,
    \* the chain table and the cluster state
    xyz_vec,              \* chain id -> number of residues held (0: released)
    clust_mem_vec,        \* chain id -> cluster index, NoCluster at first
    clust_repr_vec,       \* representative list
    clust_repr_map,       \* reverse index, chain id -> cluster index
    \* the driver
    pc,                   \* "loop", "join" or "exit"
    i,                    \* index of the for loop over chainLen_list
    chain_i,              \* the query of the current step
    xa,                   \* whether the query's coordinate array is held
    index_vec,            \* the candidates handed to the workers
    txt,                  \* the cluster lines written at the end
    \* one fan-out
    orc,                  \* candidate -> results of the alignment primitives
    chunks,               \* thread -> its candidates
    found_clust_atomic, assigned_cluster_idx,
    mtx,                  \* the thread that holds the mutex, or NoThread
    wpc,                  \* thread -> "none", "check", "eval", "lock", "crit", "done"
    wpos,                 \* thread -> position in its chunk
    ya,                   \* thread -> whether it holds a candidate array
    found_seen,           \* thread -> the value its last load of found returned
    \* observations
    hits,                 \* query -> candidates a worker evaluated to HIT
    tm_calls,             \* pairs given to TMalign_main in this step, with
                          \* the number of runs
    hw_calls,             \* pairs given to HwRMSD_main in this step
    stores,               \* stores to assigned_cluster_idx in this fan-out
    first_lock,           \* the first thread to take the mutex in this fan-out
    mem_writes,           \* chain id -> number of writes of its membership
    \* the command line, read before the chains
    argv,                 \* the arguments not yet read
    apc,                  \* "parse", "quit" (PrintErrorAndQuit) or "run"
    max_threads,          \* the value of -t, 0 without it
    a_opt,                \* the normalisation that s_opt selects
    \* the HwRMSD loop of the current query, one iteration at a time
    rank                  \* position, HwRMSDscore_list, init_count, arrays held

vars == << mol_vec, chainLen_list, init_cluster, s_opt, fast_opt, TMcut,
           num_threads, xyz_vec, clust_mem_vec, clust_repr_vec, clust_repr_map,
           pc, i, chain_i, xa, index_vec, txt, orc, chunks, found_clust_atomic,
           assigned_cluster_idx, mtx, wpc, wpos, ya, hits, tm_calls, hw_calls,
           stores, first_lock, mem_writes, found_seen, argv, apc, max_threads,
           a_opt, rank >>

\* what the clustering loop never writes: the options, the chain table
\* and the hints; the command line is read and the ranker's loop is run
\* to its end before a worker starts
inputVars == << mol_vec, chainLen_list, init_cluster, s_opt, fast_opt, TMcut,
                num_threads, argv, apc, max_threads, a_opt, rank >>

NoThread == 0 - 1
Nstruct == Len(chainLen_list)
EmptyMap == [l \in {} |-> {}]

\* ---------------------------------------------------------------- ranker
\* the representatives that pass the pruner, latest cluster first
RECURSIVE InitialCandidates(_, _)
InitialCandidates(q, j) ==
    IF j = 0 THEN <<>>
    ELSE LET chain_j == clust_repr_vec[j]
             rest == InitialCandidates(q, j - 1)
         IN  IF Pruned(s_opt, TMcut, xyz_vec[q], xyz_vec[chain_j],
                       mol_vec[q], mol_vec[chain_j])
             THEN rest ELSE <<chain_j>> \o rest

HasHint(key) == key \in DOMAIN init_cluster
Hinted(key, value) == HasHint(key) /\ value \in init_cluster[key]

\* lb_HwRMSD of the pair (q, r): 0.5*TMcut, recomputed by
\* filter_lower_bound for every pair when s_opt <= 1
RankerLowerBound(q, r) ==
    IF s_opt <= 1
    THEN filter_lower_bound(TMcut, s_opt, mol_vec[q] + mol_vec[r]).lb_HwRMSD
    ELSE (50 * TMcut) \div 100

\* variant: a candidate is passed over once every hinted entry is counted
HintSkip_Covered(q, acc, chain_j) ==
    /\ HasHint(q)
    /\ acc.init_count >= 2
    /\ acc.init_count >= Cardinality(init_cluster[q])
    /\ chain_j \notin init_cluster[q]

\* the test at the head of the loop body that passes over a candidate
HintSkip(q, acc, chain_j) ==
    /\ HasHint(q)
    /\ acc.init_count >= 2
    /\ Len(acc.list) >= Cardinality(init_cluster[q])
    /\ chain_j \notin init_cluster[q]

\* variant: a hinted candidate is kept whatever its score
Kept_OrHinted(q, chain_j, TM) ==
    \/ TM >= RankerLowerBound(q, chain_j)
    \/ xyz_vec[q] * xyz_vec[chain_j] <= fast_lb * fast_lb
    \/ Hinted(q, chain_j)

\* if (TM>=lb_HwRMSD || Lave<=fast_lb)
Kept(q, chain_j, TM) ==
    \/ TM >= RankerLowerBound(q, chain_j)
    \/ xyz_vec[q] * xyz_vec[chain_j] <= fast_lb * fast_lb

\* variant: the loop is left only with two hinted entries or more
HintBreak_AtLeastTwo(q, count) == count = Cardinality(init_cluster[q]) /\ count >= 2

\* if (init_count==init_cluster[key].size()) break;
HintBreak(q, count) == count = Cardinality(init_cluster[q])

\* the HwRMSD loop before its first iteration
RankIdle == [j |-> 1, list |-> <<>>, init_count |-> 0, calls |-> {}, leaks |-> 0,
             stop |-> "no", ev |-> "none", cutoff |-> min_repr_num]

\* one pass through the body of the HwRMSD loop, for candidate cand[acc.j];
\* acc is the loop's state: the position j, HwRMSDscore_list, init_count,
\* the candidates given to HwRMSD_main, the arrays left allocated, the
\* break that ended the loop and what became of the last candidate
HwRMSD_iter(q, o, cand, acc) ==
    LET chain_j == cand[acc.j]
        TM == Combine(o[chain_j].hw, s_opt)
        next == [acc EXCEPT !.j = @ + 1]
        called == [next EXCEPT !.calls = @ \cup {chain_j}]
    IN  IF HintSkip(q, acc, chain_j)
        THEN [next EXCEPT !.ev = "skip"]
        ELSE IF Pruned(s_opt, TMcut, xyz_vec[q], xyz_vec[chain_j],
                       mol_vec[q], mol_vec[chain_j])
        THEN [next EXCEPT !.ev = "pruned"]
        ELSE IF Kept(q, chain_j, TM) /\ Hinted(q, chain_j)
        THEN LET pushed == [called EXCEPT
                               !.list = Append(@, <<TM + 1000, chain_j>>),
                               !.init_count = @ + 1,
                               !.ev = "kept"]
             IN  IF HintBreak(q, pushed.init_count)
                 THEN [pushed EXCEPT !.j = acc.j, !.leaks = @ + 1, !.stop = "hints"]
                 ELSE IF TM >= UpperBound(TMcut)
                 THEN [pushed EXCEPT !.j = acc.j, !.stop = "ub"]
                 ELSE pushed
        ELSE LET pushed == IF Kept(q, chain_j, TM)
                           THEN [called EXCEPT !.list = Append(@, <<TM, chain_j>>),
                                               !.ev = "kept"]
                           ELSE [called EXCEPT !.ev = "dropped"]
             IN  IF TM >= UpperBound(TMcut)
                 THEN [pushed EXCEPT !.j = acc.j, !.stop = "ub"]
                 ELSE pushed

\* the HwRMSD loop from the state acc on
RECURSIVE HwRMSD_loop(_, _, _, _)
HwRMSD_loop(q, o, cand, acc) ==
    IF acc.stop # "no" \/ acc.j > Len(cand) THEN acc
    ELSE HwRMSD_loop(q, o, cand, HwRMSD_iter(q, o, cand, acc))

HwRMSD_stage(q, o, cand) == HwRMSD_loop(q, o, cand, RankIdle)

\* variant: the quotient of the lengths is taken in integers
cur_repr_num_cutoff_IntQuotient(xlen) ==
    IF xlen <= fast_lb THEN max_repr_num
    ELSE IF xlen < fast_ub
    THEN min_repr_num
           + ((fast_ub - xlen) \div (fast_ub - fast_lb)) * (max_repr_num - min_repr_num)
    ELSE min_repr_num

\* int += double: the sum is formed in double and truncated
cur_repr_num_cutoff(xlen) ==
    IF xlen <= fast_lb THEN max_repr_num
    ELSE IF xlen < fast_ub
    THEN min_repr_num
           + ((fast_ub - xlen) * (max_repr_num - min_repr_num)) \div (fast_ub - fast_lb)
    ELSE min_repr_num

\* variant: the list is cut at the cap whatever the score
EmitStop_AtCap(q, TM, chain_j, out) == Len(out) >= cur_repr_num_cutoff(xyz_vec[q])

\* if (Lave>fast_lb && TM<TMcut*0.5 && index_vec.size()>=cur_repr_num_cutoff)
EmitStop(q, TM, chain_j, out) ==
    /\ xyz_vec[q] * xyz_vec[chain_j] > fast_lb * fast_lb
    /\ 2 * TM < TMcut
    /\ Len(out) >= cur_repr_num_cutoff(xyz_vec[q])

\* the loop that refills index_vec from the sorted HwRMSDscore_list
RECURSIVE EmitRanked(_, _, _, _)
EmitRanked(q, sorted, j, out) ==
    IF j > Len(sorted) THEN out
    ELSE LET TM == sorted[j][1]
             chain_j == sorted[j][2]
         IN  IF EmitStop(q, TM, chain_j, out)
             THEN out
             ELSE EmitRanked(q, sorted, j + 1, Append(out, chain_j))

Ranker(q, o, cand) ==
    EmitRanked(q, StableSortDesc(HwRMSD_stage(q, o, cand).list), 1, <<>>)

\* ------------------------------------------------- per-pair protocol
\* variant: only the -fast flag decides, the mean length does not
current_fast_opt_FlagOnly(q, r) == fast_opt

current_fast_opt(q, r) == fast_opt \/ xyz_vec[q] * xyz_vec[r] >= fast_ub * fast_ub

\* TMalign_main with the given fast flag
TMalign_main(o, r, fast) == IF fast THEN o[r].fast ELSE o[r].ref

\* lb_TMfast as the fan-out computes it: filter_lower_bound(..., 0)
WorkerLowerBound == filter_lower_bound(TMcut, s_opt, 0).lb_TMfast

\* outcome of one pair evaluation of alignment_worker: hit, and the number
\* of TMalign_main runs it took
PairOutcome(q, r, o) ==
    LET TMfirst == Combine(TMalign_main(o, r, current_fast_opt(q, r)), s_opt)
        TMsecond == Combine(TMalign_main(o, r, FALSE), s_opt)
    IN  IF TMfirst >= UpperBound(TMcut) \/ (TMfirst >= TMcut /\ current_fast_opt(q, r))
        THEN [hit |-> TRUE, runs |-> 1]
        ELSE IF TMfirst < WorkerLowerBound
        THEN [hit |-> FALSE, runs |-> 1]
        ELSE [hit |-> TMsecond >= TMcut, runs |-> 2]

\* variant: a chunk filled from the back of the ranked list
Chunk_Reversed(list, W, t) ==
    LET n == IF Len(list) > t THEN (Len(list) - t + W - 1) \div W ELSE 0
    IN  [m \in 1 .. n |-> list[(n - m) * W + t + 1]]

\* variant: the list is cut into W blocks of neighbours
Chunk_Blocks(list, W, t) ==
    LET size == (Len(list) + W - 1) \div W
        last == IF (t + 1) * size < Len(list) THEN (t + 1) * size ELSE Len(list)
    IN  SubSeq(list, t * size + 1, last)

\* chunks[k % num_threads].push_back(index_vec[k])
Chunk(list, W, t) ==
    LET n == IF Len(list) > t THEN (Len(list) - t + W - 1) \div W ELSE 0
    IN  [m \in 1 .. n |-> list[(m - 1) * W + t + 1]]

\* ------------------------------------------------------------------ Init
\* a_opt from s_opt; a is the value a_opt has without -s
SelectNorm(a, s) ==
    IF s = 2 \/ s = 4 \/ s = 5 THEN 0 - 2
    ELSE IF s = 1 \/ s = 5 THEN 0 - 1
    ELSE IF s = 3 THEN 1
    ELSE a

\* the state when the for loop over chainLen_list is entered: the chains
\* are read and sorted, the first cluster is set
Start(kinds, sopts, fasts, cuts, ws, files) ==
    \E tab \in [Chains -> kinds], s \in sopts, f \in fasts, c \in cuts,
       w \in ws, file \in files :
        LET sorted == StableSortDesc([k \in 1 .. NumChains |-> <<tab[k - 1].L, k - 1>>])
            first == sorted[1][2]
        IN  /\ mol_vec = [k \in Chains |-> tab[k].mol]
            /\ xyz_vec = [k \in Chains |-> tab[k].L]
            /\ chainLen_list = sorted
            /\ init_cluster = read_init_cluster(file, EmptyMap)
            /\ s_opt = s
            /\ fast_opt = f
            /\ TMcut = c
            /\ num_threads = w
            /\ clust_mem_vec = [k \in Chains |-> IF k = first THEN 0 ELSE NoCluster]
            /\ clust_repr_vec = <<first>>
            /\ clust_repr_map = [k \in {first} |-> 0]
            /\ pc = "loop"
            /\ i = 1
            /\ chain_i = first
            /\ xa = FALSE
            /\ index_vec = <<>>
            /\ txt = <<>>
            /\ orc = EmptyMap
            /\ chunks = [t \in Threads |-> <<>>]
            /\ found_clust_atomic = FALSE
            /\ assigned_cluster_idx = NoCluster
            /\ mtx = NoThread
            /\ wpc = [t \in Threads |-> "none"]
            /\ wpos = [t \in Threads |-> 1]
            /\ ya = [t \in Threads |-> FALSE]
            /\ hits = [k \in Chains |-> {}]
            /\ tm_calls = {}
            /\ hw_calls = {}
            /\ stores = 0
            /\ first_lock = NoThread
            /\ mem_writes = [k \in Chains |-> IF k = first THEN 1 ELSE 0]
            /\ found_seen = [t \in Threads |-> FALSE]
            /\ argv = <<>>
            /\ apc = "run"
            /\ max_threads = w
            /\ a_opt = SelectNorm(0, s)
            /\ rank = RankIdle

Init == Start(ChainKinds, SOpts, BOOLEAN, TMcuts, 1 .. MaxThreads, HintFiles)

fanoutIdle ==
    /\ chunks' = [t \in Threads |-> <<>>]
    /\ found_clust_atomic' = FALSE
    /\ assigned_cluster_idx' = NoCluster
    /\ wpc' = [t \in Threads |-> "none"]
    /\ wpos' = [t \in Threads |-> 1]
    /\ found_seen' = [t \in Threads |-> FALSE]
    /\ orc' = EmptyMap
    /\ stores' = 0
    /\ first_lock' = NoThread

\* ---------------------------------------------------------------- driver
\* variant: the index of a new cluster taken one too large
NewClusterIndex_OffByOne == Len(clust_repr_vec) + 1

\* clust_repr_vec.size(), the index of the cluster about to be created
NewClusterIndex == Len(clust_repr_vec)

\* xlen<=5: the chain is given a cluster of its own without any alignment
D_Singleton ==
    /\ pc = "loop"
    /\ i < Nstruct
    /\ LET q == chainLen_list[i + 1][2]
       IN  /\ xyz_vec[q] <= SingletonLen
           /\ chain_i' = q
           /\ clust_mem_vec' = [clust_mem_vec EXCEPT ![q] = NewClusterIndex]
           /\ mem_writes' = [mem_writes EXCEPT ![q] = @ + 1]
           /\ clust_repr_vec' = Append(clust_repr_vec, NewClusterIndex)
    /\ i' = i + 1
    /\ UNCHANGED << inputVars, xyz_vec, clust_repr_map, pc, xa, index_vec, txt,
                    orc, chunks, found_clust_atomic, assigned_cluster_idx, mtx,
                    wpc, wpos, ya, hits, tm_calls, hw_calls, stores, first_lock, found_seen >>

\* variant: the buffers of the chain are released whatever the outcome
Record_ReleaseAlways(q, found, idx) ==
    /\ IF found
       THEN /\ clust_mem_vec' = [clust_mem_vec EXCEPT ![q] = idx]
            /\ UNCHANGED << clust_repr_vec, clust_repr_map >>
       ELSE /\ clust_mem_vec' = [clust_mem_vec EXCEPT ![q] = NewClusterIndex]
            /\ clust_repr_map' = [k \in DOMAIN clust_repr_map \cup {q} |->
                                     IF k = q THEN NewClusterIndex
                                     ELSE clust_repr_map[k]]
            /\ clust_repr_vec' = Append(clust_repr_vec, q)
    /\ xyz_vec' = [xyz_vec EXCEPT ![q] = 0]
    /\ mem_writes' = [mem_writes EXCEPT ![q] = @ + 1]
    /\ xa' = FALSE
    /\ index_vec' = <<>>
    /\ i' = i + 1
    /\ pc' = "loop"

\* variant: a new representative is put at the head of the list
Record_AtHead(q, found, idx) ==
    /\ IF found
       THEN /\ clust_mem_vec' = [clust_mem_vec EXCEPT ![q] = idx]
            /\ xyz_vec' = [xyz_vec EXCEPT ![q] = 0]
            /\ UNCHANGED << clust_repr_vec, clust_repr_map >>
       ELSE /\ clust_mem_vec' = [clust_mem_vec EXCEPT ![q] = NewClusterIndex]
            /\ clust_repr_map' = [k \in DOMAIN clust_repr_map \cup {q} |->
                                     IF k = q THEN NewClusterIndex
                                     ELSE clust_repr_map[k]]
            /\ clust_repr_vec' = <<q>> \o clust_repr_vec
            /\ UNCHANGED xyz_vec
    /\ mem_writes' = [mem_writes EXCEPT ![q] = @ + 1]
    /\ xa' = FALSE
    /\ index_vec' = <<>>
    /\ i' = i + 1
    /\ pc' = "loop"

\* the end of a step: the membership of q from found and the hit index
Record(q, found, idx) ==
    /\ IF found
       THEN /\ clust_mem_vec' = [clust_mem_vec EXCEPT ![q] = idx]
            /\ xyz_vec' = [xyz_vec EXCEPT ![q] = 0]
            /\ UNCHANGED << clust_repr_vec, clust_repr_map >>
       ELSE /\ clust_mem_vec' = [clust_mem_vec EXCEPT ![q] = NewClusterIndex]
            /\ clust_repr_map' = [k \in DOMAIN clust_repr_map \cup {q} |->
                                     IF k = q THEN NewClusterIndex
                                     ELSE clust_repr_map[k]]
            /\ clust_repr_vec' = Append(clust_repr_vec, q)
            /\ UNCHANGED xyz_vec
    /\ mem_writes' = [mem_writes EXCEPT ![q] = @ + 1]
    /\ xa' = FALSE
    /\ index_vec' = <<>>
    /\ i' = i + 1
    /\ pc' = "loop"

\* the candidates are dealt out to the chunks and a thread is started for
\* every chunk that is not empty
FanOut(ranked) ==
    /\ chunks' = [t \in Threads |->
                     IF t < num_threads THEN Chunk(ranked, num_threads, t) ELSE <<>>]
    /\ wpc' = [t \in Threads |->
                  IF t < num_threads /\ Chunk(ranked, num_threads, t) # <<>>
                  THEN "check" ELSE "none"]
    /\ wpos' = [t \in Threads |-> 1]
    /\ found_seen' = [t \in Threads |-> FALSE]
    /\ found_clust_atomic' = FALSE
    /\ assigned_cluster_idx' = NoCluster
    /\ stores' = 0
    /\ first_lock' = NoThread

\* a step up to the start of the threads: prune, rank, split, start.  With
\* no candidate left no thread is started and the step ends at once.
D_Begin ==
    /\ pc = "loop"
    /\ i < Nstruct
    /\ LET q == chainLen_list[i + 1][2]
           cand == InitialCandidates(q, Len(clust_repr_vec))
       IN  /\ xyz_vec[q] > SingletonLen
           /\ chain_i' = q
           /\ \E o \in [SeqToSet(cand) -> Profiles] :
                \E stage \in {HwRMSD_stage(q, o, cand)}, ranked \in {Ranker(q, o, cand)} :
                    /\ hw_calls' = { <<q, r>> : r \in stage.calls }
                    /\ tm_calls' = {}
                    /\ IF ranked = <<>>
                       THEN /\ Record(q, FALSE, NoCluster)
                            /\ UNCHANGED << orc, chunks, found_clust_atomic,
                                            assigned_cluster_idx, wpc, wpos, stores,
                                            first_lock, found_seen >>
                       ELSE /\ index_vec' = ranked
                            /\ orc' = [r \in SeqToSet(ranked) |-> o[r]]
                            /\ FanOut(ranked)
                            /\ xa' = TRUE
                            /\ pc' = "join"
                            /\ UNCHANGED << xyz_vec, clust_mem_vec, clust_repr_vec,
                                            clust_repr_map, i, mem_writes >>
    /\ UNCHANGED << inputVars, txt, mtx, ya, hits >>

\* variant: the driver goes on as soon as one thread has ended
D_Join_NoWait ==
    /\ pc = "join"
    /\ \E t \in Threads : wpc[t] \in {"none", "done"}
    /\ Record(chain_i, found_clust_atomic, assigned_cluster_idx)
    /\ fanoutIdle
    /\ UNCHANGED << inputVars, chain_i, txt, mtx, ya, hits, tm_calls, hw_calls >>

\* th.join() of every thread, then the membership decision
D_Join ==
    /\ pc = "join"
    /\ \A t \in Threads : wpc[t] \in {"none", "done"}
    /\ Record(chain_i, found_clust_atomic, assigned_cluster_idx)
    /\ fanoutIdle
    /\ UNCHANGED << inputVars, chain_i, txt, mtx, ya, hits, tm_calls, hw_calls >>

\* one output line: the representative, then the members of the cluster
RECURSIVE Members(_, _, _)
Members(j, chain_j, k) ==
    IF k >= NumChains THEN <<>>
    ELSE (IF k # chain_j /\ clust_mem_vec[k] = j THEN <<k>> ELSE <<>>)
           \o Members(j, chain_j, k + 1)

ClusterLine(j) == <<clust_repr_vec[j + 1]>> \o Members(j, clust_repr_vec[j + 1], 0)

\* after the loop: the cluster file
D_Output ==
    /\ pc = "loop"
    /\ i >= Nstruct
    /\ txt' = [j \in 1 .. Len(clust_repr_vec) |-> ClusterLine(j - 1)]
    /\ pc' = "exit"
    /\ UNCHANGED << inputVars, xyz_vec, clust_mem_vec, clust_repr_vec,
                    clust_repr_map, i, chain_i, xa, index_vec, orc, chunks,
                    found_clust_atomic, assigned_cluster_idx, mtx, wpc, wpos, ya,
                    hits, tm_calls, hw_calls, stores, first_lock, mem_writes, found_seen >>

\* --------------------------------------------------------------- workers
\* variant: a MISS ends the worker instead of moving on to the next candidate
NextCandidate_Return(t) ==
    /\ wpos' = [wpos EXCEPT ![t] = @ + 1]
    /\ wpc' = [wpc EXCEPT ![t] = "done"]

\* the end of one pass through the body of the for loop of alignment_worker
NextCandidate(t) ==
    /\ wpos' = [wpos EXCEPT ![t] = @ + 1]
    /\ wpc' = [wpc EXCEPT ![t] = IF wpos[t] + 1 > Len(chunks[t]) THEN "done" ELSE "check"]

\* variant: the value of the load is not acted upon
W_Check_IgnoreFound(t) ==
    /\ wpc[t] = "check"
    /\ \E seen \in {found_clust_atomic, FALSE} :
       LET chain_j == chunks[t][wpos[t]]
       IN  /\ found_seen' = [found_seen EXCEPT ![t] = seen]
           /\ IF Pruned(s_opt, TMcut, xyz_vec[chain_i], xyz_vec[chain_j],
                        mol_vec[chain_i], mol_vec[chain_j])
              THEN /\ NextCandidate(t)
                   /\ UNCHANGED ya
              ELSE /\ ya' = [ya EXCEPT ![t] = TRUE]
                   /\ wpc' = [wpc EXCEPT ![t] = "eval"]
                   /\ UNCHANGED wpos
    /\ UNCHANGED << inputVars, xyz_vec, clust_mem_vec, clust_repr_vec,
                    clust_repr_map, pc, i, chain_i, xa, index_vec, txt, orc,
                    chunks, found_clust_atomic, assigned_cluster_idx, mtx, hits,
                    tm_calls, hw_calls, stores, first_lock, mem_writes >>

\* the head of the loop body: the found check, the pruner, NewArray(&ya).
\* The load is relaxed and outside the mutex: it may still return false
\* after another thread has stored true.
W_Check(t) ==
    /\ wpc[t] = "check"
    /\ \E seen \in {found_clust_atomic, FALSE} :
       LET chain_j == chunks[t][wpos[t]]
       IN  IF seen
           THEN /\ found_seen' = [found_seen EXCEPT ![t] = seen]
                /\ wpc' = [wpc EXCEPT ![t] = "done"]
                /\ UNCHANGED << wpos, ya >>
           ELSE IF Pruned(s_opt, TMcut, xyz_vec[chain_i], xyz_vec[chain_j],
                          mol_vec[chain_i], mol_vec[chain_j])
           THEN /\ found_seen' = [found_seen EXCEPT ![t] = seen]
                /\ NextCandidate(t)
                /\ UNCHANGED ya
           ELSE /\ found_seen' = [found_seen EXCEPT ![t] = seen]
                /\ ya' = [ya EXCEPT ![t] = TRUE]
                /\ wpc' = [wpc EXCEPT ![t] = "eval"]
                /\ UNCHANGED wpos
    /\ UNCHANGED << inputVars, xyz_vec, clust_mem_vec, clust_repr_vec,
                    clust_repr_map, pc, i, chain_i, xa, index_vec, txt, orc,
                    chunks, found_clust_atomic, assigned_cluster_idx, mtx, hits,
                    tm_calls, hw_calls, stores, first_lock, mem_writes >>

\* the one or two runs of TMalign_main and the decision on their scores
W_Eval(t) ==
    /\ wpc[t] = "eval"
    /\ LET chain_j == chunks[t][wpos[t]]
           out == PairOutcome(chain_i, chain_j, orc)
       IN  /\ tm_calls' = tm_calls \cup { <<chain_i, chain_j, out.runs>> }
           /\ IF out.hit
              THEN /\ hits' = [hits EXCEPT ![chain_i] = @ \cup {chain_j}]
                   /\ wpc' = [wpc EXCEPT ![t] = "lock"]
                   /\ UNCHANGED << wpos, ya >>
              ELSE /\ ya' = [ya EXCEPT ![t] = FALSE]
                   /\ NextCandidate(t)
                   /\ UNCHANGED hits
    /\ UNCHANGED << inputVars, xyz_vec, clust_mem_vec, clust_repr_vec,
                    clust_repr_map, pc, i, chain_i, xa, index_vec, txt, orc,
                    chunks, found_clust_atomic, assigned_cluster_idx, mtx,
                    hw_calls, stores, first_lock, mem_writes, found_seen >>

\* variant: every thread locks a mutex of its own, so nothing excludes
W_Lock_NoExclusion(t) ==
    /\ wpc[t] = "lock"
    /\ mtx' = t
    /\ first_lock' = IF first_lock = NoThread THEN t ELSE first_lock
    /\ wpc' = [wpc EXCEPT ![t] = "crit"]
    /\ UNCHANGED << inputVars, xyz_vec, clust_mem_vec, clust_repr_vec,
                    clust_repr_map, pc, i, chain_i, xa, index_vec, txt, orc,
                    chunks, found_clust_atomic, assigned_cluster_idx, wpos, ya,
                    hits, tm_calls, hw_calls, stores, mem_writes, found_seen >>

\* std::lock_guard<std::mutex> lock(args.mtx)
W_Lock(t) ==
    /\ wpc[t] = "lock"
    /\ mtx = NoThread
    /\ mtx' = t
    /\ first_lock' = IF first_lock = NoThread THEN t ELSE first_lock
    /\ wpc' = [wpc EXCEPT ![t] = "crit"]
    /\ UNCHANGED << inputVars, xyz_vec, clust_mem_vec, clust_repr_vec,
                    clust_repr_map, pc, i, chain_i, xa, index_vec, txt, orc,
                    chunks, found_clust_atomic, assigned_cluster_idx, wpos, ya,
                    hits, tm_calls, hw_calls, stores, mem_writes, found_seen >>

\* variant: the store is made without looking at found first
W_Seal_NoCheck(t) ==
    /\ wpc[t] = "crit"
    /\ assigned_cluster_idx' = clust_repr_map[chunks[t][wpos[t]]]
    /\ found_clust_atomic' = TRUE
    /\ stores' = stores + 1
    /\ wpc' = [wpc EXCEPT ![t] = "unlock"]
    /\ UNCHANGED << inputVars, xyz_vec, clust_mem_vec, clust_repr_vec,
                    clust_repr_map, pc, i, chain_i, xa, index_vec, txt, orc, chunks,
                    mtx, wpos, ya, hits, tm_calls, hw_calls, first_lock, mem_writes, found_seen >>

\* if (!found_clust) { assigned_cluster_idx = clust_repr_map.at(chain_j);
\* found_clust = true; }  An id the map lacks makes at() throw, which ends
\* the process.
W_Seal(t) ==
    /\ wpc[t] = "crit"
    /\ LET chain_j == chunks[t][wpos[t]]
       IN  IF found_clust_atomic
           THEN /\ wpc' = [wpc EXCEPT ![t] = "unlock"]
                /\ UNCHANGED << found_clust_atomic, assigned_cluster_idx, stores, pc >>
           ELSE IF chain_j \in DOMAIN clust_repr_map
           THEN /\ assigned_cluster_idx' = clust_repr_map[chain_j]
                /\ found_clust_atomic' = TRUE
                /\ stores' = stores + 1
                /\ wpc' = [wpc EXCEPT ![t] = "unlock"]
                /\ UNCHANGED pc
           ELSE /\ pc' = "abort"
                /\ wpc' = [wpc EXCEPT ![t] = "abort"]
                /\ UNCHANGED << found_clust_atomic, assigned_cluster_idx, stores >>
    /\ UNCHANGED << inputVars, xyz_vec, clust_mem_vec, clust_repr_vec,
                    clust_repr_map, i, chain_i, xa, index_vec, txt, orc, chunks,
                    mtx, wpos, ya, hits, tm_calls, hw_calls, first_lock, mem_writes, found_seen >>

\* variant: the thread returns after a hit with the mutex still locked
W_Exit_KeepLock(t) ==
    /\ wpc[t] = "unlock"
    /\ ya' = [ya EXCEPT ![t] = FALSE]
    /\ wpc' = [wpc EXCEPT ![t] = "done"]
    /\ UNCHANGED << inputVars, xyz_vec, clust_mem_vec, clust_repr_vec,
                    clust_repr_map, pc, i, chain_i, xa, index_vec, txt, orc,
                    chunks, found_clust_atomic, assigned_cluster_idx, wpos, hits,
                    tm_calls, hw_calls, stores, first_lock, mem_writes, found_seen, mtx >>

\* variant: the thread returns after a hit without DeleteArray(&ya, ylen)
W_Exit_KeepScratch(t) ==
    /\ wpc[t] = "unlock"
    /\ mtx' = NoThread
    /\ wpc' = [wpc EXCEPT ![t] = "done"]
    /\ UNCHANGED << inputVars, xyz_vec, clust_mem_vec, clust_repr_vec,
                    clust_repr_map, pc, i, chain_i, xa, index_vec, txt, orc,
                    chunks, found_clust_atomic, assigned_cluster_idx, wpos, hits,
                    tm_calls, hw_calls, stores, first_lock, mem_writes, found_seen, ya >>

\* DeleteArray(&ya, ylen); return;  the lock_guard is released on the way out
W_Exit(t) ==
    /\ wpc[t] = "unlock"
    /\ ya' = [ya EXCEPT ![t] = FALSE]
    /\ mtx' = NoThread
    /\ wpc' = [wpc EXCEPT ![t] = "done"]
    /\ UNCHANGED << inputVars, xyz_vec, clust_mem_vec, clust_repr_vec,
                    clust_repr_map, pc, i, chain_i, xa, index_vec, txt, orc,
                    chunks, found_clust_atomic, assigned_cluster_idx, wpos, hits,
                    tm_calls, hw_calls, stores, first_lock, mem_writes, found_seen >>

alignment_worker(t) ==
    \/ W_Check(t)
    \/ W_Eval(t)
    \/ W_Lock(t)
    \/ W_Seal(t)
    \/ W_Exit(t)

Next ==
    \/ D_Singleton
    \/ D_Begin
    \/ D_Join
    \/ D_Output
    \/ \E t \in Threads : alignment_worker(t)

Spec == Init /\ [][Next]_vars

\* the main thread that runs the loop over the chains
Driver == D_Singleton \/ D_Begin \/ D_Join \/ D_Output

\* the main thread and every std::thread are scheduled again and again: a
\* thread that can take a step does take it.  A thread waiting for the
\* mutex gets it once the holder has left, for no thread locks twice.
FairInit ==
    Start({[L |-> 4, mol |-> 0 - 1], [L |-> 60, mol |-> 0 - 1]}, {2}, BOOLEAN,
          {TMcutDefault}, {MaxThreads}, {<<>>})

FairSpec ==
    /\ FairInit
    /\ [][Next]_vars
    /\ WF_vars(Driver)
    /\ \A t \in Threads : WF_vars(alignment_worker(t))

TypeOK ==
    /\ pc \in {"loop", "join", "exit", "abort"}
    /\ i \in 1 .. NumChains
    /\ \A k \in Chains : clust_mem_vec[k] \in {NoCluster} \cup (0 .. NumChains)
    /\ mtx \in {NoThread} \cup Threads

\* =================================================================
\* The command line
\* =================================================================
\* the number of options on a command line
MaxArgs == 2

\* the bounds of the test on -TMcut, in thousandths
TMcutMin == 450
TMcutMax == 1000

TMcutArgs == {440, 449, TMcutMin, TMcutDefault, 999, TMcutMax, 1001}
SArgs == 0 .. 7
TArgs == (0 - 1) .. 2
Options ==
    ({"-TMcut"} \X TMcutArgs) \cup ({"-s"} \X SArgs) \cup ({"-t"} \X TArgs)
        \cup {<<"-fast", 0>>, <<"-a", 0>>}
CommandLines == UNION { [1 .. n -> Options] : n \in 0 .. MaxArgs }

\* what std::thread::hardware_concurrency() may return
Cores == 0 .. 2

\* the variables of the clustering loop
stepVars == << xyz_vec, clust_mem_vec, clust_repr_vec, clust_repr_map, pc, i,
               chain_i, xa, index_vec, txt, orc, chunks, found_clust_atomic,
               assigned_cluster_idx, mtx, wpc, wpos, ya, hits, tm_calls,
               hw_calls, stores, first_lock, mem_writes, found_seen >>

\* no chain is read and no cluster is set yet
NothingRead ==
    /\ mol_vec = EmptyMap
    /\ xyz_vec = EmptyMap
    /\ chainLen_list = <<>>
    /\ init_cluster = EmptyMap
    /\ clust_mem_vec = EmptyMap
    /\ clust_repr_vec = <<>>
    /\ clust_repr_map = EmptyMap
    /\ pc = "start"
    /\ i = 0
    /\ chain_i = 0
    /\ xa = FALSE
    /\ index_vec = <<>>
    /\ txt = <<>>
    /\ orc = EmptyMap
    /\ chunks = [t \in Threads |-> <<>>]
    /\ found_clust_atomic = FALSE
    /\ assigned_cluster_idx = NoCluster
    /\ mtx = NoThread
    /\ wpc = [t \in Threads |-> "none"]
    /\ wpos = [t \in Threads |-> 1]
    /\ ya = [t \in Threads |-> FALSE]
    /\ hits = EmptyMap
    /\ tm_calls = {}
    /\ hw_calls = {}
    /\ stores = 0
    /\ first_lock = NoThread
    /\ mem_writes = EmptyMap
    /\ found_seen = [t \in Threads |-> FALSE]
    /\ rank = RankIdle

\* main is entered: the options have their default values
ArgInit ==
    /\ argv \in CommandLines
    /\ apc = "parse"
    /\ TMcut = TMcutDefault
    /\ s_opt = 2
    /\ a_opt = 0
    /\ fast_opt = FALSE
    /\ max_threads = 0
    /\ num_threads = 0
    /\ NothingRead

\* the argument the for loop over argv is at
AtOption(name) == apc = "parse" /\ argv # <<>> /\ Head(argv)[1] = name

A_TMcut ==
    /\ AtOption("-TMcut")
    /\ TMcut' = Head(argv)[2]
    /\ apc' = IF Head(argv)[2] > TMcutMax \/ Head(argv)[2] < TMcutMin
              THEN "quit" ELSE "parse"
    /\ argv' = Tail(argv)
    /\ UNCHANGED << mol_vec, chainLen_list, init_cluster, s_opt, fast_opt,
                    num_threads, max_threads, a_opt, rank, stepVars >>

A_s ==
    /\ AtOption("-s")
    /\ s_opt' = Head(argv)[2]
    /\ apc' = IF Head(argv)[2] < 1 \/ Head(argv)[2] > 6 THEN "quit" ELSE "parse"
    /\ argv' = Tail(argv)
    /\ UNCHANGED << mol_vec, chainLen_list, init_cluster, TMcut, fast_opt,
                    num_threads, max_threads, a_opt, rank, stepVars >>

A_fast ==
    /\ AtOption("-fast")
    /\ fast_opt' = TRUE
    /\ argv' = Tail(argv)
    /\ UNCHANGED << mol_vec, chainLen_list, init_cluster, TMcut, s_opt, apc,
                    num_threads, max_threads, a_opt, rank, stepVars >>

\* -a followed by another argument is refused; as the last argument it
\* is taken for the name of the input
A_a ==
    /\ AtOption("-a")
    /\ IF Len(argv) > 1
       THEN apc' = "quit" /\ UNCHANGED argv
       ELSE argv' = Tail(argv) /\ UNCHANGED apc
    /\ UNCHANGED << mol_vec, chainLen_list, init_cluster, TMcut, s_opt, fast_opt,
                    num_threads, max_threads, a_opt, rank, stepVars >>

A_t ==
    /\ AtOption("-t")
    /\ max_threads' = Head(argv)[2]
    /\ apc' = IF Head(argv)[2] <= 0 THEN "quit" ELSE "parse"
    /\ argv' = Tail(argv)
    /\ UNCHANGED << mol_vec, chainLen_list, init_cluster, TMcut, s_opt, fast_opt,
                    num_threads, a_opt, rank, stepVars >>

\* after the loop over argv: a_opt is set from s_opt and the chains are read
A_Thresholds ==
    /\ apc = "parse"
    /\ argv = <<>>
    /\ a_opt' = SelectNorm(a_opt, s_opt)
    /\ apc' = "read"
    /\ UNCHANGED << mol_vec, chainLen_list, init_cluster, TMcut, s_opt, fast_opt,
                    argv, num_threads, max_threads, rank, stepVars >>

\* the number of threads from -t, or else from the hardware
ThreadCount(mt, hw) == IF mt > 0 THEN mt ELSE IF hw = 0 THEN 1 ELSE hw

A_Threads ==
    /\ apc = "read"
    /\ \E hw \in Cores : num_threads' = ThreadCount(max_threads, hw)
    /\ apc' = "run"
    /\ UNCHANGED << mol_vec, chainLen_list, init_cluster, TMcut, s_opt, fast_opt,
                    argv, max_threads, a_opt, rank, stepVars >>

ArgNext ==
    \/ A_TMcut
    \/ A_s
    \/ A_fast
    \/ A_a
    \/ A_t
    \/ A_Thresholds
    \/ A_Threads

ArgSpec == ArgInit /\ [][ArgNext]_vars

\* =================================================================
\* One pair in the hands of a worker
\* =================================================================
\* a query (chain 0) and a representative (chain 1) at least as long
PairLengths == { <<60, 60>>, <<60, 150>>, <<150, 150>>, <<150, 1000>>,
                 <<1000, 1000>>, <<1000, 2000>>, <<2000, 2000>> }
PairMols == {0 - 1, 1}
PairTMcuts == {TMcutDefault, 700, 900}
\* (TM1, TM2) of a TM-align run
PairScores == { <<300, 350>>, <<420, 470>>, <<470, 520>>, <<520, 600>>, <<650, 650>> }

\* the fan-out of query 0 over the single candidate 1 has started
PairInit ==
    \E len \in PairLengths, mi \in PairMols, mj \in PairMols, s \in 1 .. 6,
       f \in BOOLEAN, c \in PairTMcuts, tmf \in PairScores, tmr \in PairScores :
        /\ mol_vec = [k \in 0 .. 1 |-> IF k = 0 THEN mi ELSE mj]
        /\ xyz_vec = [k \in 0 .. 1 |-> IF k = 0 THEN len[1] ELSE len[2]]
        /\ chainLen_list = << <<len[2], 1>>, <<len[1], 0>> >>
        /\ init_cluster = EmptyMap
        /\ s_opt = s
        /\ fast_opt = f
        /\ TMcut = c
        /\ num_threads = 1
        /\ clust_mem_vec = [k \in 0 .. 1 |-> IF k = 1 THEN 0 ELSE NoCluster]
        /\ clust_repr_vec = <<1>>
        /\ clust_repr_map = [k \in {1} |-> 0]
        /\ pc = "join"
        /\ i = 1
        /\ chain_i = 0
        /\ xa = TRUE
        /\ index_vec = <<1>>
        /\ txt = <<>>
        /\ orc = [r \in {1} |-> [hw |-> <<0, 0>>, fast |-> tmf, ref |-> tmr]]
        /\ chunks = [t \in Threads |-> IF t = 0 THEN <<1>> ELSE <<>>]
        /\ found_clust_atomic = FALSE
        /\ assigned_cluster_idx = NoCluster
        /\ mtx = NoThread
        /\ wpc = [t \in Threads |-> IF t = 0 THEN "check" ELSE "none"]
        /\ wpos = [t \in Threads |-> 1]
        /\ ya = [t \in Threads |-> FALSE]
        /\ hits = [k \in 0 .. 1 |-> {}]
        /\ tm_calls = {}
        /\ hw_calls = {}
        /\ stores = 0
        /\ first_lock = NoThread
        /\ mem_writes = [k \in 0 .. 1 |-> IF k = 1 THEN 1 ELSE 0]
        /\ found_seen = [t \in Threads |-> FALSE]
        /\ argv = <<>>
        /\ apc = "run"
        /\ max_threads = 1
        /\ a_opt = SelectNorm(0, s)
        /\ rank = RankIdle

PairNext == \E t \in Threads : alignment_worker(t)

PairSpec == PairInit /\ [][PairNext]_vars

\* =================================================================
\* The split of a candidate list
\* =================================================================
\* the number of candidates of a query
MaxCands == 4

\* the lists of up to MaxCands distinct representatives
CandidateLists ==
    { l \in UNION { [1 .. n -> 1 .. MaxCands] : n \in 0 .. MaxCands } :
        \A a, b \in DOMAIN l : a # b => l[a] # l[b] }

\* the chains are read; -t gave max_threads, or 0 without it; the ranked
\* candidates of the query are in index_vec
FanInit ==
    /\ argv = <<>>
    /\ apc = "read"
    /\ TMcut = TMcutDefault
    /\ s_opt = 2
    /\ a_opt = SelectNorm(0, 2)
    /\ fast_opt = FALSE
    /\ max_threads \in 0 .. MaxThreads
    /\ num_threads = 0
    /\ mol_vec = EmptyMap
    /\ xyz_vec = EmptyMap
    /\ chainLen_list = <<>>
    /\ init_cluster = EmptyMap
    /\ clust_mem_vec = EmptyMap
    /\ clust_repr_vec = <<>>
    /\ clust_repr_map = EmptyMap
    /\ pc = "split"
    /\ i = 0
    /\ chain_i = 0
    /\ xa = TRUE
    /\ index_vec \in CandidateLists
    /\ txt = <<>>
    /\ orc = EmptyMap
    /\ chunks = [t \in Threads |-> <<>>]
    /\ found_clust_atomic = FALSE
    /\ assigned_cluster_idx = NoCluster
    /\ mtx = NoThread
    /\ wpc = [t \in Threads |-> "none"]
    /\ wpos = [t \in Threads |-> 1]
    /\ ya = [t \in Threads |-> FALSE]
    /\ hits = EmptyMap
    /\ tm_calls = {}
    /\ hw_calls = {}
    /\ stores = 0
    /\ first_lock = NoThread
    /\ mem_writes = EmptyMap
    /\ found_seen = [t \in Threads |-> FALSE]
    /\ rank = RankIdle

\* from found_clust_atomic(false) to the start of the threads
F_Split ==
    /\ apc = "run"
    /\ pc = "split"
    /\ FanOut(index_vec)
    /\ pc' = "join"
    /\ UNCHANGED << inputVars, xyz_vec, clust_mem_vec, clust_repr_vec,
                    clust_repr_map, i, chain_i, xa, index_vec, txt, orc, mtx, ya,
                    hits, tm_calls, hw_calls, mem_writes >>

FanNext ==
    \/ A_Threads
    \/ F_Split

FanSpec == FanInit /\ [][FanNext]_vars

\* =================================================================
\* The ranking of one query
\* =================================================================
\* the query is chain 0; the representatives are the chains 1 .. MaxCands,
\* all of 60 residues
RankReps == 1 .. MaxCands
RankQueryLens == {40, 60}
RankSOpts == {1, 2}
\* TM1 = TM2 of a HwRMSD run
RankScores == {100, 300, 600}
\* the labels a hint line may hold besides the query: the representatives
\* and one chain that is no representative
RankLabels == 1 .. (MaxCands + 1)
RankHintFiles ==
    {<<>>} \cup { << <<0>> \o l >> : l \in
                   { l \in UNION { [1 .. n -> RankLabels] : n \in 0 .. (MaxCands + 1) } :
                       \A a, b \in DOMAIN l : a < b => l[a] < l[b] } }

\* query 0 enters the loop over chainLen_list with the representatives
\* 1 .. n of ylen residues each
RankStart(n, xlens, ylen, sopts, files, scores) ==
    \E xlen \in xlens, s \in sopts, file \in files, tm \in [1 .. n -> scores] :
        /\ mol_vec = [k \in 0 .. n |-> 0 - 1]
        /\ xyz_vec = [k \in 0 .. n |-> IF k = 0 THEN xlen ELSE ylen]
        /\ chainLen_list = [k \in 1 .. (n + 1) |->
                               IF k <= n THEN <<ylen, k>> ELSE <<xlen, 0>>]
        /\ init_cluster = read_init_cluster(file, EmptyMap)
        /\ s_opt = s
        /\ fast_opt = FALSE
        /\ TMcut = TMcutDefault
        /\ num_threads = 1
        /\ clust_mem_vec = [k \in 0 .. n |-> IF k = 0 THEN NoCluster ELSE k - 1]
        /\ clust_repr_vec = [k \in 1 .. n |-> k]
        /\ clust_repr_map = [k \in 1 .. n |-> k - 1]
        /\ pc = "loop"
        /\ i = n
        /\ chain_i = 0
        /\ xa = FALSE
        /\ index_vec = <<>>
        /\ txt = <<>>
        /\ orc = [r \in 1 .. n |->
                     [hw |-> <<tm[r], tm[r]>>, fast |-> <<0, 0>>, ref |-> <<0, 0>>]]
        /\ chunks = [t \in Threads |-> <<>>]
        /\ found_clust_atomic = FALSE
        /\ assigned_cluster_idx = NoCluster
        /\ mtx = NoThread
        /\ wpc = [t \in Threads |-> "none"]
        /\ wpos = [t \in Threads |-> 1]
        /\ ya = [t \in Threads |-> FALSE]
        /\ hits = [k \in 0 .. n |-> {}]
        /\ tm_calls = {}
        /\ hw_calls = {}
        /\ stores = 0
        /\ first_lock = NoThread
        /\ mem_writes = [k \in 0 .. n |-> IF k = 0 THEN 0 ELSE 1]
        /\ found_seen = [t \in Threads |-> FALSE]
        /\ argv = <<>>
        /\ apc = "run"
        /\ max_threads = 1
        /\ a_opt = SelectNorm(0, s)
        /\ rank = RankIdle

RankInit ==
    RankStart(MaxCands, RankQueryLens, 60, RankSOpts, RankHintFiles, RankScores)

\* what the steps of the ranking leave alone
rankFrame == << mol_vec, chainLen_list, init_cluster, s_opt, fast_opt, TMcut,
               num_threads, argv, apc, max_threads, a_opt, xyz_vec, clust_mem_vec,
               clust_repr_vec, clust_repr_map, i, chain_i, txt, orc, chunks,
               found_clust_atomic, assigned_cluster_idx, mtx, wpc, wpos, ya, hits,
               tm_calls, stores, first_lock, mem_writes, found_seen >>

\* NewArray(&xa) and the loop over clust_repr_vec that fills index_vec
R_Prune ==
    /\ pc = "loop"
    /\ xa' = TRUE
    /\ index_vec' = InitialCandidates(chain_i, Len(clust_repr_vec))
    /\ pc' = "rank"
    /\ UNCHANGED << rankFrame, rank, hw_calls >>

\* one pass through the body of the HwRMSD loop
R_Iter ==
    /\ pc = "rank"
    /\ rank.stop = "no"
    /\ rank.j <= Len(index_vec)
    /\ rank' = HwRMSD_iter(chain_i, orc, index_vec, rank)
    /\ hw_calls' = { <<chain_i, r>> : r \in rank'.calls }
    /\ UNCHANGED << rankFrame, pc, xa, index_vec >>

\* after the loop: HwRMSDscore_list is sorted and index_vec is filled anew
R_Emit ==
    /\ pc = "rank"
    /\ rank.stop # "no" \/ rank.j > Len(index_vec)
    /\ rank' = [rank EXCEPT !.list = StableSortDesc(@),
                            !.cutoff = cur_repr_num_cutoff(xyz_vec[chain_i])]
    /\ index_vec' = EmitRanked(chain_i, StableSortDesc(rank.list), 1, <<>>)
    /\ pc' = "ranked"
    /\ UNCHANGED << rankFrame, xa, hw_calls >>

RankNext ==
    \/ R_Prune
    \/ R_Iter
    \/ R_Emit

RankSpec == RankInit /\ [][RankNext]_vars

\* =================================================================
\* The ranking of a long query over many representatives
\* =================================================================
\* the number of representatives, one more than the smallest cap
LongCands == 11

\* the query has 976 or 1000 residues (caps 11 and 10), every
\* representative 1000; with -s 1 scores below TMcut/2 are kept
LongHintFiles == { <<>>, << <<0, 3, LongCands + 1>> >> }
LongInit == RankStart(LongCands, {976, 1000}, 1000, {1}, LongHintFiles, {200, 300})

LongRankSpec == LongInit /\ [][RankNext]_vars

\* =================================================================
\* The retention cap over the query lengths
\* =================================================================
\* the longest query, beyond fast_ub
MaxCapLen == 1100

\* one representative of MaxCapLen residues, a query of any length up to it
CapInit == RankStart(1, 1 .. MaxCapLen, MaxCapLen, {2}, {<<>>}, {600})

CapSpec == CapInit /\ [][RankNext]_vars

\* =================================================================
\* Properties
\* =================================================================
\* the length a chain was read with (xyz_vec drops to 0 on release)
ChainLen(k) == LET e == CHOOSE e \in SeqToSet(chainLen_list) : e[2] = k IN e[1]

\* the representative-list entry of cluster k (k counts from 0)
ReprOf(k) == clust_repr_vec[k + 1]

\* every thread of the fan-out has returned: th.join() is through
Joined == pc = "join" /\ \A t \in Threads : wpc[t] \in {"none", "done"}

\* the candidates of the current list that the per-pair protocol accepts
HitCandidates == { r \in SeqToSet(index_vec) : PairOutcome(chain_i, r, orc).hit }

\* the first candidate, in ranked order, that the protocol accepts
FirstHit == index_vec[CHOOSE k \in 1 .. Len(index_vec) :
                         /\ index_vec[k] \in HitCandidates
                         /\ \A m \in 1 .. (k - 1) : index_vec[m] \notin HitCandidates]

\* C1: every chain bound to cluster k that is not the k-th entry of the
\* representative list was evaluated by a worker against that entry, and
\* the evaluation was a HIT.
C1_MemberHitRepr ==
    \A m \in Chains :
        (clust_mem_vec[m] # NoCluster /\ ReprOf(clust_mem_vec[m]) # m)
            => ReprOf(clust_mem_vec[m]) \in hits[m]

\* C2: after a full run the chain at position k of the representative
\* list has membership k.
C2_ReprIsMember ==
    pc = "exit" =>
        \A k \in 0 .. (Len(clust_repr_vec) - 1) : clust_mem_vec[ReprOf(k)] = k

\* C3: after a full run a chain of at most 5 residues is the
\* representative of its cluster and the cluster's only member.
C3_ShortIsSingleton ==
    pc = "exit" =>
        \A m \in Chains :
            ChainLen(m) <= SingletonLen =>
                /\ ReprOf(clust_mem_vec[m]) = m
                /\ \A n \in Chains \ {m} : clust_mem_vec[n] # clust_mem_vec[m]

\* number of times chain k is written in the cluster file
RECURSIVE Occurrences(_, _)
Occurrences(line, k) ==
    IF line = <<>> THEN 0
    ELSE (IF Head(line) = k THEN 1 ELSE 0) + Occurrences(Tail(line), k)

RECURSIVE TotalOccurrences(_, _)
TotalOccurrences(lines, k) ==
    IF lines = <<>> THEN 0
    ELSE Occurrences(Head(lines), k) + TotalOccurrences(Tail(lines), k)

\* C4: the cluster file names every chain exactly once.
C4_OutputIsPartition ==
    pc = "exit" => \A k \in Chains : TotalOccurrences(txt, k) = 1

\* C5 (state part): a membership is written at most once, it is bound
\* exactly when it has been written, and at the end every chain is bound
\* to an index below the number of clusters.
C5_State ==
    /\ \A k \in Chains :
          /\ mem_writes[k] <= 1
          /\ (mem_writes[k] = 1) <=> (clust_mem_vec[k] # NoCluster)
    /\ pc = "exit" =>
          \A k \in Chains :
              /\ mem_writes[k] = 1
              /\ clust_mem_vec[k] \in 0 .. (Len(clust_repr_vec) - 1)

\* C5: every chain is processed once and its membership is written once;
\* a recorded membership is never changed by a later step; at the end
\* every chain is bound to a cluster index smaller than the number of
\* clusters.
C5_WrittenOnce ==
    /\ []C5_State
    /\ [][\A k \in Chains :
             clust_mem_vec[k] # NoCluster => clust_mem_vec'[k] = clust_mem_vec[k]]_vars

C5_Witness ==
    /\ pc = "exit"
    /\ \E k \in Chains : clust_mem_vec[k] # NoCluster /\ xyz_vec[k] = 0
    /\ Len(clust_repr_vec) >= 2

\* C6: no pair of opposite molecule type is given to HwRMSD_main or to
\* TMalign_main, and at the end no chain is bound to a cluster whose
\* representative-list entry has a molecule type of the opposite sign.
C6_MoleculeIsolation ==
    /\ \A p \in hw_calls \cup tm_calls : ~MolMismatch(mol_vec[p[1]], mol_vec[p[2]])
    /\ pc = "exit" =>
          \A m \in Chains :
              ~MolMismatch(mol_vec[m], mol_vec[ReprOf(clust_mem_vec[m])])

\* C7: when every worker has returned, found is set exactly when some
\* candidate of the ranked list is a HIT under the per-pair protocol,
\* whatever the number of threads and the interleaving.
C7_HitIffSomeCandidateHits ==
    Joined => (found_clust_atomic <=> HitCandidates # {})

\* a fan-out over two threads ends in a hit although a thread left a HIT
\* candidate of its chunk unevaluated
C7_Witness ==
    /\ Joined
    /\ num_threads >= 2
    /\ found_clust_atomic
    /\ HitCandidates \ hits[chain_i] # {}

\* the candidate thread t is at
CurrentCandidate(t) == chunks[t][wpos[t]]

\* C8 (step part): within a fan-out found and the hit index change only in
\* a step of a thread that holds the mutex and sees found false; the step
\* sets found and stores the reverse-index entry of the candidate that
\* thread evaluated to HIT; once found is set neither changes.
C8_Step ==
    (pc = "join" /\ pc' = "join"
       /\ (found_clust_atomic' # found_clust_atomic
             \/ assigned_cluster_idx' # assigned_cluster_idx))
    => \E t \in Threads :
          /\ mtx = t
          /\ wpc[t] = "crit"
          /\ ~found_clust_atomic
          /\ found_clust_atomic'
          /\ CurrentCandidate(t) \in hits[chain_i]
          /\ assigned_cluster_idx' = clust_repr_map[CurrentCandidate(t)]

\* C8: the hit index is stored at most once per fan-out, under the mutex
\* and with found still false; found only goes from false to true; the
\* value is the reverse-index entry of a candidate the storing thread
\* evaluated to HIT and no later HIT overwrites it.
C8_SealedOnce ==
    /\ [](stores <= 1 /\ (found_clust_atomic <=> stores = 1))
    /\ [][C8_Step]_vars

\* a second thread with a HIT is in the critical section after the seal
C8_Witness ==
    /\ stores = 1
    /\ \E t \in Threads :
          /\ wpc[t] = "unlock"
          /\ assigned_cluster_idx # clust_repr_map[CurrentCandidate(t)]

\* C9: with one thread the fan-out picks the cluster of the first
\* candidate, in ranked order, that is a HIT, and reports a miss when no
\* candidate is; the result is a function of the ranked list and of the
\* scores alone.
C9_SingleThreadFirstHit ==
    (Joined /\ num_threads = 1) =>
        IF HitCandidates = {} THEN ~found_clust_atomic
        ELSE /\ found_clust_atomic
             /\ assigned_cluster_idx = clust_repr_map[FirstHit]

\* one thread, two HIT candidates in the list
C9_Witness ==
    /\ Joined
    /\ num_threads = 1
    /\ Cardinality(HitCandidates) >= 2
    /\ found_clust_atomic

\* C10: with several threads the winner is the HIT of the thread that
\* takes the mutex first, which need not be the highest-ranked HIT.
C10_FirstLockerWins ==
    (pc = "join" /\ found_clust_atomic) =>
        /\ first_lock # NoThread
        /\ CurrentCandidate(first_lock) \in HitCandidates
        /\ assigned_cluster_idx = clust_repr_map[CurrentCandidate(first_lock)]

\* two HIT candidates on different threads, and the cluster assigned is
\* not that of the highest-ranked HIT
C10_Witness ==
    /\ Joined
    /\ num_threads >= 2
    /\ found_clust_atomic
    /\ Cardinality(HitCandidates) >= 2
    /\ assigned_cluster_idx # clust_repr_map[FirstHit]


\* ------------------------------------------------------------------ C11
WorkersRunning == \E t \in Threads : wpc[t] \notin {"none", "done"}

C11_Step ==
    WorkersRunning =>
        /\ pc = "join"
        /\ xa
        /\ UNCHANGED << clust_mem_vec, clust_repr_vec, clust_repr_map, xyz_vec,
                        mol_vec, chainLen_list, init_cluster, xa, i, chain_i,
                        index_vec, chunks, orc >>

\* C11: while a worker of the current fan-out has not ended, the driver
\* is at the join of that fan-out and takes no step: the query's
\* coordinate array stays held, the membership vector, the representative
\* list, the reverse index and the chain table stay as they are, and no
\* other fan-out is begun.
C11_JoinBarrier == [][C11_Step]_vars

\* found is set and a thread has ended while another is still inside a
\* pair evaluation: the driver waits
C11_Witness ==
    /\ pc = "join"
    /\ found_clust_atomic
    /\ \E t, u \in Threads : wpc[t] = "done" /\ wpc[u] = "eval"


\* ------------------------------------------------------------------ C12
\* a step of thread t in which its load of found returns true
ObservesFound(t) == wpc[t] = "check" /\ found_seen'[t]

C12_ObservedStep ==
    \A t \in Threads :
        /\ ObservesFound(t) =>
              /\ wpc'[t] = "done"
              /\ wpos'[t] = wpos[t]
              /\ UNCHANGED << tm_calls, ya, hits >>
        /\ wpc[t] = "done" => wpc'[t] \in {"done", "none"}
        /\ (wpc[t] = "eval" /\ wpc'[t] # "eval") =>
              \E n \in 1 .. 2 : <<chain_i, CurrentCandidate(t), n>> \in tm_calls'

C12_StaleStep ==
    \A t \in Threads :
        (found_clust_atomic /\ wpc[t] = "check") => wpc'[t] # "eval"

C13_LengthSortedOrder ==
    /\ Len(chainLen_list) = NumChains
    /\ { chainLen_list[k][2] : k \in 1 .. NumChains } = Chains
    /\ \A a, b \in 1 .. NumChains :
          a < b =>
            /\ chainLen_list[a][1] >= chainLen_list[b][1]
            /\ chainLen_list[a][1] = chainLen_list[b][1] =>
                  chainLen_list[a][2] < chainLen_list[b][2]
    /\ clust_repr_vec[1] = chainLen_list[1][2]
    /\ clust_mem_vec[chainLen_list[1][2]] = 0


\* ------------------------------------------------------------------ C14
\* C14: a -TMcut value outside [0.45, 1), the value 1 included, ends the
\* program with a diagnostic before any clustering, so that clustering
\* runs with 0.45 <= TMcut < 1 only.
C14_TMcutInRange ==
    /\ (TMcut < TMcutMin \/ TMcut >= TMcutMax) => apc = "quit"
    /\ apc = "run" => (TMcutMin <= TMcut /\ TMcut < TMcutMax)


\* ------------------------------------------------------------------ C15
\* whether the first run of the pair (q, r) is a fast one
FirstRunFast(q, r) == fast_opt \/ xyz_vec[q] * xyz_vec[r] >= fast_ub * fast_ub

\* the combined score of the first run of the pair (q, r)
FirstScore(q, r) ==
    Combine(IF FirstRunFast(q, r) THEN orc[r].fast ELSE orc[r].ref, s_opt)

\* the combined score of a run with fast = false
RefinedScore(r) == Combine(orc[r].ref, s_opt)

\* the first score alone makes the pair a HIT
FirstRunHit(q, r) ==
    \/ FirstScore(q, r) >= (9 * TMcut) \div 10 + 100
    \/ FirstScore(q, r) >= TMcut /\ FirstRunFast(q, r)

\* C15: for every pair a worker has evaluated: it is a HIT after one run
\* if the first score is at least ub_TMfast, or at least TMcut with a fast
\* first run (-fast given or sqrt(xlen*ylen) >= 1000); else it is a MISS
\* after one run if the first score is below lb_TMfast; else a second run
\* with fast = false is made and the pair is a HIT iff that run's score
\* is at least TMcut.
C15_PairProtocol ==
    \A p \in tm_calls :
        LET q == p[1]
            r == p[2]
            runs == p[3]
        IN  IF FirstRunHit(q, r) THEN r \in hits[q] /\ runs = 1
            ELSE IF FirstScore(q, r) < WorkerLowerBound
            THEN r \notin hits[q] /\ runs = 1
            ELSE runs = 2 /\ (r \in hits[q] <=> RefinedScore(r) >= TMcut)

\* a first score in [lb_TMfast, ub_TMfast) that is no HIT by itself, and
\* a refined score that makes the pair a HIT; the first run was fast
\* because of the lengths alone
C15_Witness ==
    \E p \in tm_calls :
        /\ ~fast_opt
        /\ FirstRunFast(p[1], p[2])
        /\ ~FirstRunHit(p[1], p[2])
        /\ FirstScore(p[1], p[2]) >= WorkerLowerBound
        /\ RefinedScore(p[2]) >= TMcut
        /\ p[3] = 2
        /\ p[2] \in hits[p[1]]

\* ------------------------------------------------------------------ C16
\* lb_TMfast of the pair (q, r) as the claim gives it
ClaimedLowerBound(q, r) ==
    IF s_opt >= 2 THEN (90 * TMcut) \div 100
    ELSE IF mol_vec[q] > 0 /\ mol_vec[r] > 0 THEN (60 * TMcut) \div 100
    ELSE (80 * TMcut) \div 100

\* C16: the workers' lb_TMfast is 0.9 TMcut for s >= 2 and, for s <= 1,
\* 0.60 TMcut for a pair of nucleic acids and 0.80 TMcut for a pair of
\* proteins, and their ub_TMfast is 0.9 TMcut + 0.1: a pair whose first
\* score reaches ub_TMfast is a HIT after one run, and a pair that is no
\* HIT after its first run gets the second run exactly when its first
\* score is at least that lb_TMfast.
C16_WorkerBounds ==
    \A p \in tm_calls :
        LET q == p[1]
            r == p[2]
            runs == p[3]
        IN  /\ FirstScore(q, r) >= (9 * TMcut) \div 10 + 100 =>
                  (r \in hits[q] /\ runs = 1)
            /\ ~FirstRunHit(q, r) =>
                  (runs = 2 <=> FirstScore(q, r) >= ClaimedLowerBound(q, r))


\* ------------------------------------------------------------------ C17
\* the position of candidate r in the ranked list
RankedPos(r) == CHOOSE k \in 1 .. Len(index_vec) : index_vec[k] = r

\* C17: once the candidates are split, the number of threads W is at
\* least 1, the candidate at position k (from 0) is in the chunk of worker
\* k mod W and in no other, every chunk holds its candidates in ranked
\* order and holds nothing else, and a thread is started only for a
\* chunk that is not empty.
C17_RoundRobin ==
    pc = "join" =>
        /\ num_threads >= 1
        /\ \A k \in 1 .. Len(index_vec) : \A t \in Threads :
              index_vec[k] \in SeqToSet(chunks[t]) <=> t = (k - 1) % num_threads
        /\ \A t \in Threads :
              /\ SeqToSet(chunks[t]) \subseteq SeqToSet(index_vec)
              /\ \A m, n \in 1 .. Len(chunks[t]) :
                    m < n => RankedPos(chunks[t][m]) < RankedPos(chunks[t][n])
              /\ wpc[t] # "none" => chunks[t] # <<>>

\* three candidates over two threads counted from the hardware: the third
\* candidate comes back to worker 0, behind the first
C17_Witness ==
    /\ pc = "join"
    /\ max_threads = 0
    /\ num_threads = 2
    /\ Len(index_vec) = 3
    /\ chunks[0] = <<index_vec[1], index_vec[3]>>
    /\ chunks[1] = <<index_vec[2]>>


\* ------------------------------------------------------------------ C18
\* the HwRMSD score of the query against candidate r
NativeTM(r) == Combine(orc[r].hw, s_opt)

\* the candidates in HwRMSDscore_list
KeptIds == { rank.list[k][2] : k \in 1 .. Len(rank.list) }

\* the place of candidate r in HwRMSDscore_list
KeptPos(r) == CHOOSE k \in 1 .. Len(rank.list) : rank.list[k][2] = r

\* the mean length of the pair is above fast_lb
LongPair(r) == xyz_vec[chain_i] * xyz_vec[r] > fast_lb * fast_lb

\* the sorted list has the hinted entries first, in the order of their
\* HwRMSD scores, and every hinted entry carries its score plus 1.0
HintedFirst ==
    pc = "ranked" =>
        \A r, u \in KeptIds :
            /\ rank.list[KeptPos(r)][1] =
                  NativeTM(r) + (IF Hinted(chain_i, r) THEN 1000 ELSE 0)
            /\ (Hinted(chain_i, r) /\ ~Hinted(chain_i, u)) => KeptPos(r) < KeptPos(u)
            /\ (Hinted(chain_i, r) /\ Hinted(chain_i, u) /\ NativeTM(r) > NativeTM(u))
                  => KeptPos(r) < KeptPos(u)

\* C18 as amended: a candidate the ranker evaluates is kept iff its
\* HwRMSD score is at least lb_HwRMSD or sqrt(xlen*ylen) <= fast_lb,
\* whether it is hinted or not; a kept hinted entry has the score TM+1.0,
\* so that after the sort the hinted entries stand before all unhinted
\* ones, ordered among themselves by their HwRMSD score.
C18_HintedBoost ==
    /\ \A r \in rank.calls :
          r \in KeptIds <=>
              (NativeTM(r) >= RankerLowerBound(chain_i, r) \/ ~LongPair(r))
    /\ HintedFirst

\* a hinted candidate below lb_HwRMSD has been evaluated and dropped,
\* and a kept hinted entry stands before an unhinted entry of a higher
\* HwRMSD score
C18_Witness ==
    /\ pc = "ranked"
    /\ \E r \in rank.calls \ KeptIds :
          Hinted(chain_i, r) /\ NativeTM(r) < RankerLowerBound(chain_i, r)
    /\ \E r, u \in KeptIds :
          /\ Hinted(chain_i, r)
          /\ ~Hinted(chain_i, u)
          /\ NativeTM(r) < NativeTM(u)
          /\ KeptPos(r) < KeptPos(u)

\* C18 as stated: with a hint entry for the query, every hinted candidate
\* the ranker evaluates is kept, also below lb_HwRMSD, while an unhinted
\* one below lb_HwRMSD with sqrt(xlen*ylen) > fast_lb is dropped; the
\* hinted entries carry TM+1.0 and stand first after the sort.
C18_HintedAlwaysKept ==
    /\ \A r \in rank.calls :
          /\ Hinted(chain_i, r) => r \in KeptIds
          /\ (~Hinted(chain_i, r) /\ LongPair(r)
                 /\ NativeTM(r) < RankerLowerBound(chain_i, r)) => r \notin KeptIds
    /\ HintedFirst


\* ------------------------------------------------------------------ C19
\* the hint set of the query, empty without a hint entry
HintSet == IF HasHint(chain_i) THEN init_cluster[chain_i] ELSE {}

\* C19 as amended: the HwRMSD loop is left because of the hints exactly
\* when the number of kept hinted entries has reached the size of the
\* query's hint set, which happens in the pass that keeps a hinted
\* candidate; every hinted label is then in the kept list.  No second
\* hinted entry is asked for: a hint set of size 1 ends the loop at its
\* first kept entry.
C19_StopOnCount ==
    /\ rank.stop = "hints" <=>
           (HasHint(chain_i) /\ rank.init_count >= 1
              /\ rank.init_count = Cardinality(HintSet))
    /\ rank.stop = "hints" => HintSet \subseteq KeptIds

\* the loop has been left at the only entry of a hint set of size 1
C19_Witness ==
    /\ rank.stop = "hints"
    /\ Cardinality(HintSet) = 1
    /\ rank.init_count = 1

\* C19 as stated: the loop is left because of the hints only when the
\* counter of hinted entries has reached the size of the hint set, every
\* hinted entry evaluated, and at least two hinted entries have been
\* seen; a hint set of size 1 never ends the loop.
C19_StopNeedsTwo ==
    rank.stop = "hints" =>
        /\ rank.init_count = Cardinality(HintSet)
        /\ HintSet \subseteq rank.calls
        /\ rank.init_count >= 2

\* ------------------------------------------------------------------ C20
\* a pass of the HwRMSD loop over an unhinted candidate
UnhintedPass ==
    /\ pc = "rank"
    /\ pc' = "rank"
    /\ rank' # rank
    /\ ~Hinted(chain_i, index_vec[rank.j])

\* a pass of the HwRMSD loop over a hinted candidate
HintedPass ==
    /\ pc = "rank"
    /\ pc' = "rank"
    /\ rank' # rank
    /\ Hinted(chain_i, index_vec[rank.j])

\* the candidate of the pass does not go through the length-bound pruner
PassPruned ==
    Pruned(s_opt, TMcut, xyz_vec[chain_i], xyz_vec[index_vec[rank.j]],
           mol_vec[chain_i], mol_vec[index_vec[rank.j]])

\* at least two hinted entries are kept and the kept list, hinted and
\* unhinted entries together, is as long as the hint set
ListFilled ==
    /\ HasHint(chain_i)
    /\ rank.init_count >= 2
    /\ Len(rank.list) >= Cardinality(HintSet)

C20_FilledStep ==
    /\ UnhintedPass =>
          /\ rank'.ev = "skip" <=> ListFilled
          /\ rank'.ev = "skip" =>
                /\ index_vec[rank.j] \notin rank'.calls
                /\ rank'.list = rank.list
                /\ rank.init_count < Cardinality(HintSet)
          /\ (~ListFilled /\ ~PassPruned) => index_vec[rank.j] \in rank'.calls
    /\ HintedPass => rank'.ev # "skip"

\* C20 as amended: an unhinted candidate is passed over without an
\* HwRMSD run exactly when the query has a hint entry, at least two
\* hinted entries are kept and the kept list, hinted and unhinted
\* entries together, has at least as many entries as the hint set; the
\* hint set is then not yet covered.  In every other state an unhinted
\* candidate that passes the pruner is evaluated, and a hinted candidate
\* is never passed over.
C20_SkipWhenFilled == [][C20_FilledStep]_vars

\* an unhinted candidate has just been passed over
C20_Witness ==
    /\ pc = "rank"
    /\ rank.ev = "skip"
    /\ rank.init_count >= 2
    /\ rank.init_count < Cardinality(HintSet)

\* every hinted entry is in the kept list and at least two are
HintsCovered ==
    /\ HasHint(chain_i)
    /\ HintSet \subseteq KeptIds
    /\ rank.init_count >= 2

C20_CoveredStep ==
    UnhintedPass =>
        /\ rank'.ev = "skip" => HintsCovered
        /\ (~HintsCovered /\ ~PassPruned) => index_vec[rank.j] \in rank'.calls

\* C20 as stated: an unhinted candidate is passed over without an HwRMSD
\* run only once every hinted entry is in the kept list and at least two
\* hinted entries are in it; in every other state an unhinted candidate
\* that passes the pruner is evaluated.
C20_SkipWhenCovered == [][C20_CoveredStep]_vars


\* ------------------------------------------------------------------ C21
\* the retention cap of a query of x residues
ClaimedCap(x) ==
    IF x <= 50 THEN 50
    ELSE IF x >= 1000 THEN 10
    ELSE 10 + ((1000 - x) * 40) \div 950

\* entry j of the sorted list ends the emission
StopsAt(sorted, j) ==
    /\ 2 * sorted[j][1] < TMcut
    /\ xyz_vec[chain_i] * xyz_vec[sorted[j][2]] > fast_lb * fast_lb
    /\ j - 1 >= ClaimedCap(xyz_vec[chain_i])

\* the number of entries emitted from the sorted list
EmittedLen(sorted) ==
    IF \E j \in 1 .. Len(sorted) : StopsAt(sorted, j)
    THEN (CHOOSE j \in 1 .. Len(sorted) :
             StopsAt(sorted, j) /\ \A k \in 1 .. (j - 1) : ~StopsAt(sorted, k)) - 1
    ELSE Len(sorted)

C21_Step ==
    (pc = "rank" /\ pc' = "ranked") =>
        /\ Len(rank'.list) = Len(rank.list)
        /\ SeqToSet(rank'.list) = SeqToSet(rank.list)
        /\ \A k, m \in 1 .. Len(rank'.list) :
              k < m => rank'.list[k][1] >= rank'.list[m][1]
        /\ index_vec' = [k \in 1 .. EmittedLen(rank'.list) |-> rank'.list[k][2]]
        /\ \A k, m \in 1 .. Len(index_vec') :
              /\ k # m => index_vec'[k] # index_vec'[m]
              /\ index_vec'[k] \in SeqToSet(clust_repr_vec)
              /\ ~Pruned(s_opt, TMcut, xyz_vec[chain_i], xyz_vec[index_vec'[k]],
                         mol_vec[chain_i], mol_vec[index_vec'[k]])

C22_Cap ==
    pc = "ranked" =>
        /\ rank.cutoff = ClaimedCap(xyz_vec[chain_i])
        /\ rank.cutoff >= 10
        /\ rank.cutoff <= 50
        /\ \A x \in 1 .. xyz_vec[chain_i] : cur_repr_num_cutoff(x) >= rank.cutoff

\* a query of intermediate length got a cap strictly between 10 and 50
C22_Witness ==
    /\ pc = "ranked"
    /\ xyz_vec[chain_i] > 50
    /\ xyz_vec[chain_i] < 1000
    /\ rank.cutoff > 10
    /\ rank.cutoff < 50


\* ------------------------------------------------------------------ C23
\* the step of a chain of more than 5 residues ends
StepEnds == i' = i + 1 /\ xyz_vec[chain_i'] > SingletonLen

\* the step ends after a thread has sealed a hit
EndsInHit == pc = "join" /\ found_clust_atomic

C23_Step ==
    /\ Len(clust_repr_vec') >= Len(clust_repr_vec)
    /\ \A k \in 1 .. Len(clust_repr_vec) : clust_repr_vec'[k] = clust_repr_vec[k]
    /\ \A k \in DOMAIN clust_repr_map :
          k \in DOMAIN clust_repr_map' /\ clust_repr_map'[k] = clust_repr_map[k]
    /\ i' = i => clust_repr_vec' = clust_repr_vec /\ clust_repr_map' = clust_repr_map
    /\ (StepEnds /\ EndsInHit) =>
          clust_repr_vec' = clust_repr_vec /\ clust_repr_map' = clust_repr_map
    /\ (StepEnds /\ ~EndsInHit) =>
          /\ clust_repr_vec' = Append(clust_repr_vec, chain_i')
          /\ clust_mem_vec'[chain_i'] = Len(clust_repr_vec)
          /\ DOMAIN clust_repr_map' = DOMAIN clust_repr_map \cup {chain_i'}
          /\ clust_repr_map'[chain_i'] = Len(clust_repr_vec)

CandidatesRead ==
    (IF pc = "loop" /\ i < Nstruct /\ xyz_vec[chainLen_list[i + 1][2]] > SingletonLen
     THEN SeqToSet(clust_repr_vec) ELSE {})
      \cup (IF pc = "join"
            THEN SeqToSet(index_vec) \cup UNION { SeqToSet(chunks[t]) : t \in Threads }
            ELSE {})

\* the buffers of chain k are held
Held(k) == xyz_vec[k] > 0

C24_Step ==
    /\ \A k \in DOMAIN xyz_vec :
          xyz_vec'[k] # xyz_vec[k] =>
              /\ pc = "join" /\ found_clust_atomic
              /\ k = chain_i
              /\ clust_mem_vec'[k] = assigned_cluster_idx
              /\ k \notin SeqToSet(clust_repr_vec')
              /\ k \notin DOMAIN clust_repr_map'
    /\ \A r \in CandidatesRead : r \in DOMAIN clust_repr_map /\ Held(r)
    /\ pc' # "abort"

Evaluating(t) == wpc[t] \in {"eval", "lock", "crit", "unlock"}

C25_Step ==
    \A t \in Threads :
        /\ ya[t] <=> Evaluating(t)
        /\ (ya'[t] /\ ~ya[t]) <=> (wpc[t] = "check" /\ wpc'[t] = "eval")
        /\ (ya[t] /\ ~ya'[t]) <=>
              (wpc[t] \in {"eval", "unlock"} /\ wpc'[t] \in {"check", "done"})
        /\ wpc'[t] \in {"done", "none"} => ~ya'[t]

\* C25: a thread holds the scratch array ya exactly while it evaluates a
\* pair: ya is allocated by the step that starts the evaluation, from a
\* state where none is held, and released by the step that leaves it (a
\* hit on the first run, a score below lb_TMfast, a hit or a miss after
\* the second run), from a state where it is held; the return on found
\* and the skip of a pruned candidate allocate nothing, and a thread that
\* has ended holds none.
C25_ScratchReleased == [][C25_Step]_vars

\* both threads have ended without scratch, one after a hit and one
\* after the last candidate of its chunk missed on the second run
C25_Witness ==
    /\ pc = "join"
    /\ \E t, u \in Threads :
          /\ wpc[t] = "done" /\ ~ya[t]
          /\ wpos[t] > Len(chunks[t])
          /\ <<chain_i, chunks[t][Len(chunks[t])], 2>> \in tm_calls
          /\ wpc[u] = "done" /\ ~ya[u]
          /\ wpos[u] <= Len(chunks[u])
          /\ chunks[u][wpos[u]] \in hits[chain_i]


\* ------------------------------------------------------------------ C26
\* the flag a that goes with the scoring mode s
ClaimedNorm(s) ==
    IF s \in {1, 5} THEN 0 - 1
    ELSE IF s \in {2, 4} THEN 0 - 2
    ELSE IF s = 3 THEN 1
    ELSE 0

\* C26: once the options are read, a_opt is -1 for s_opt 1 or 5, -2 for
\* s_opt 2 or 4, 1 for s_opt 3 and 0 for s_opt 6.
C26_NormOfMode == apc \in {"read", "run"} => a_opt = ClaimedNorm(s_opt)


\* ------------------------------------------------------------------ C27
\* scores in steps of 0.025
TMGrid == { 25 * k : k \in 0 .. 40 }

\* the (TM1, TM2) a pair of x and y >= x residues can have: TM1, normalised
\* by y, is at most x/y; the largest such TM1 is added to the grid
Admissible(x, y) ==
    { tm \in (TMGrid \cup {(1000 * x) \div y}) \X TMGrid : tm[1] * y <= 1000 * x }

\* the thread passes over its candidate without evaluating it
Skips(t) == wpc[t] = "check" /\ wpc'[t] = "done" /\ wpos'[t] = wpos[t] + 1

C27_Step ==
    \A t \in Threads :
        wpc[t] = "check" =>
            LET chain_j == chunks[t][wpos[t]]
            IN  /\ (Skips(t) /\ mol_vec[chain_i] * mol_vec[chain_j] >= 0) =>
                      \A tm \in Admissible(xyz_vec[chain_i], xyz_vec[chain_j]) :
                          Combine(tm, s_opt) < TMcut
                /\ Skips(t) <=>
                      chain_j \notin
                          SeqToSet(InitialCandidates(chain_i, Len(clust_repr_vec)))

InsideChunk ==
    \A t \in Threads :
        /\ wpos[t] <= Len(chunks[t]) + 1
        /\ wpc[t] \in {"check", "eval", "lock", "crit", "unlock"} =>
              wpos[t] <= Len(chunks[t])
        /\ wpos[t] > Len(chunks[t]) => wpc[t] \in {"none", "done"}

\* every chain is bound to a cluster
AllBound == \A k \in Chains : clust_mem_vec[k] # NoCluster

\* C28: a thread never goes beyond the candidates of its chunk; every
\* fan-out ends, the join completing and the driver returning to its
\* loop; and the driver eventually leaves the loop over the chains with
\* every chain bound to a cluster.
C28_Terminates ==
    /\ []InsideChunk
    /\ (pc = "join") ~> (pc = "loop")
    /\ <>(pc = "exit" /\ i = Nstruct /\ AllBound)

\* the run has ended with every chain bound, after a fan-out in which two
\* threads ran and one sealed a hit
C28_Witness ==
    /\ pc = "exit"
    /\ AllBound
    /\ \E k \in Chains : xyz_vec[k] = 0 /\ clust_mem_vec[k] = 0
    /\ Len(clust_repr_vec) >= 2


\* ------------------------------------------------------------------ C29
\* C29: whatever way an iteration of the HwRMSD loop that allocated ya
\* and invmap ends, by going on to the next candidate, by the break on
\* init_count or by the break on ub_HwRMSD, both arrays are released: the
\* loop never holds an array of a candidate it is done with.
C29_IterationReleases == rank.leaks = 0

====
